---- MODULE Spec2Model ----
(***************************************************************************)
(* Three-tier cache of the dashboard: the in-process LRU cache             *)
(* (cache/utils/lru.js), the OSS object store adapter                      *)
(* (cache/adapters/oss-cache.js), the TableStore metadata adapter          *)
(* (cache/adapters/tablestore-metadata.js), the orchestrator               *)
(* (cache/adapters/multi-tier-with-metadata.js) and the Next.js cache      *)
(* handler (cache-handler.js).                                             *)
(*                                                                         *)
(* Time is counted in ticks; Date.now() is the variable now, which starts  *)
(* at 1 (an epoch time is never 0).  JavaScript runs one callback at a     *)
(* time, so every action below is one synchronous stretch of a handler,    *)
(* from an await's resumption to the next await or the return.             *)
(***************************************************************************)
EXTENDS Integers, Sequences, FiniteSets, TLC

VARIABLES
    now,                  \* Date.now()
    localCache,           \* LRUCache.cache: the Map, in insertion order
    maxSize,              \* LRUCache.maxSize
    hasOSSConfig,         \* the OSS_* variables are all set
    hasTableStoreConfig,  \* the TABLESTORE_* variables are all set
    ossBucket,            \* the OSS bucket: object key -> object
    metaTable,            \* the TableStore table: primary key -> row
    call,                 \* per caller: the handler call in progress
    prev,                 \* per caller: summary of its previous call
    lastUse,              \* LRU harness: rank of a key's last set / hit get
    lastOp,               \* LRU harness: the last LRUCache call
    exPos,                \* LRU harness: how far the run follows Example
    probe                 \* adapter harness: the last adapter call and its outcome

vars == <<now, localCache, maxSize, hasOSSConfig, hasTableStoreConfig,
          ossBucket, metaTable, call, prev, lastUse, lastOp, exPos, probe>>

(***************************************************************************)
(* Bounds of the model.                                                    *)
(***************************************************************************)
MaxTime == 3
MaxCapacity == 3

Keys == {"A"}
LRUKeys == {"A", "B", "C", "D"}
Procs == {1}

\* CACHE_LOCAL_TTL_MS, in ticks.
LOCAL_CACHE_TTL_MS == 2

(***************************************************************************)
(* Values.  A host entry (what Next.js hands to the handler) and a stored  *)
(* value (what the tiers hold) are records of one shape; a field the       *)
(* JavaScript object does not have reads "undefined".                      *)
(*   kind     data.kind of a host entry                                    *)
(*   type     the type tag transformValueForStorage writes                 *)
(*   pageData "string" / "object": typeof data.pageData                    *)
(*   payload  the body / html / props carried along                        *)
(***************************************************************************)
Undefined == "undefined"

NoValue == [kind |-> Undefined, type |-> Undefined, pageData |-> Undefined,
            payload |-> Undefined]

HostEntry(kind, pageData, payload) ==
    [kind |-> kind, type |-> Undefined, pageData |-> pageData, payload |-> payload]

\* The entries the host hands to set in the orchestrator specifications.
HostData == {HostEntry("PAGE", "object", "p1"), HostEntry("FETCH", Undefined, "p2")}

\* null / undefined: a missing entry, a miss.
Null == [value |-> NoValue, lastModified |-> 0]

Entry(v, t) == [value |-> v, lastModified |-> t]

(***************************************************************************)
(* LRUCache (cache/utils/lru.js).  The Map is a sequence of                *)
(* [key, entry] in insertion order.                                        *)
(***************************************************************************)
MapKeys(m) == [i \in 1..Len(m) |-> m[i].key]

MapHas(m, k) == \E i \in 1..Len(m) : m[i].key = k

\* Map.get: the value, or undefined.
MapGet(m, k) ==
    IF MapHas(m, k) THEN (CHOOSE x \in {m[i] : i \in 1..Len(m)} : x.key = k).entry
    ELSE Null

\* Map.delete
MapDelete(m, k) == SelectSeq(m, LAMBDA x : x.key # k)

\* Map.set: an existing key keeps its place, a new key goes last.
MapSet(m, k, e) ==
    IF MapHas(m, k)
    THEN [i \in 1..Len(m) |-> IF m[i].key = k THEN [key |-> k, entry |-> e] ELSE m[i]]
    ELSE Append(m, [key |-> k, entry |-> e])

\* Mutant: get does not move the key.
LRUGet_NoMove(m, k) == m

\* LRUCache.get: the cache after the call (the result is MapGet).
LRUGet(m, k) ==
    IF MapGet(m, k) # Null THEN MapSet(MapDelete(m, k), k, MapGet(m, k)) ELSE m

\* Mutant: set never evicts.
LRUEvict_Never(m, n) == m

\* The eviction step of LRUCache.set on a Map that does not hold the key.
LRUEvict(m, n) ==
    IF Len(m) >= n
    THEN (IF Len(m) > 0 THEN MapDelete(m, Head(m).key) ELSE m)
    ELSE m

\* Mutant: the eviction test runs before the existing key is removed.
LRUSet_EvictFirst(m, n, k, e) ==
    LET m1 == LRUEvict(m, n) IN
    MapSet(IF MapHas(m1, k) THEN MapDelete(m1, k) ELSE m1, k, e)

\* LRUCache.set with capacity n.
LRUSet(m, n, k, e) ==
    MapSet(LRUEvict(IF MapHas(m, k) THEN MapDelete(m, k) ELSE m, n), k, e)

\* LRUCache.delete
LRUDelete(m, k) == MapDelete(m, k)

\* LRUCache.clear
LRUClear(m) == << >>

\* LRUCache.size
LRUSize(m) == Len(m)

(***************************************************************************)
(* Cache handler, pure parts (cache-handler.js).                           *)
(***************************************************************************)
\* The options argument of get: undefined, a boolean, or an object.
Option(type, bool, kindHint, fetchCache, kind) ==
    [type |-> type, bool |-> bool, kindHint |-> kindHint,
     fetchCache |-> fetchCache, kind |-> kind]

Options == {Option("undefined", FALSE, Undefined, FALSE, Undefined),
            Option("boolean", TRUE, Undefined, FALSE, Undefined),
            Option("object", FALSE, "fetch", FALSE, Undefined),
            Option("object", FALSE, "app", FALSE, Undefined)}

\* The ctx argument of set: ctx.fetchCache.
Ctxs == {[fetchCache |-> FALSE]}

isFetchCache(options) ==
    IF options.type = "boolean" THEN options.bool
    ELSE IF options.type = "object"
         THEN options.kindHint = "fetch" \/ options.fetchCache \/ options.kind = "FETCH"
         ELSE FALSE

Stored(type, pageData, payload) ==
    [kind |-> Undefined, type |-> type, pageData |-> pageData, payload |-> payload]

transformValueForStorage(data) ==
    CASE data.kind \in {"ROUTE", "APP_ROUTE"} -> Stored("route", Undefined, data.payload)
      [] data.kind \in {"PAGE", "PAGES"} ->
            IF data.pageData = "string" THEN Stored("app", "string", data.payload)
            ELSE Stored("page", data.pageData, data.payload)
      [] data.kind = "APP_PAGE" -> Stored("app", "string", data.payload)
      [] data.kind = "REDIRECT" -> Stored("redirect", Undefined, data.payload)
      [] OTHER -> data

transformCacheValue(cacheData) ==
    CASE cacheData.type = "route" -> HostEntry("ROUTE", Undefined, cacheData.payload)
      [] cacheData.type = "page" -> HostEntry("PAGE", cacheData.pageData, cacheData.payload)
      [] cacheData.type = "app" -> HostEntry("APP_PAGE", cacheData.pageData, cacheData.payload)
      [] cacheData.type = "redirect" -> HostEntry("REDIRECT", Undefined, cacheData.payload)
      [] OTHER -> cacheData

\* The cacheType the handler's set picks.
SetCacheType(data, ctx) ==
    IF ctx.fetchCache \/ data.kind = "FETCH" THEN "fetch" ELSE "cache"

\* What the handler's get returns for the orchestrator's result.
HandlerGetResult(result, cacheType) ==
    IF result.value = NoValue THEN Null
    ELSE IF cacheType = "fetch" THEN Entry(result.value, result.lastModified)
    ELSE Entry(transformCacheValue(result.value), result.lastModified)

\* The values the tiers hold.
Values == {transformValueForStorage(d) : d \in HostData}

(***************************************************************************)
(* OSS adapter (cache/adapters/oss-cache.js).  An object is its content,   *)
(* the JSON text of the value, and its Last-Modified time.  The values of  *)
(* the model are JSON-encodable, so JSON.parse gives back the value        *)
(* that JSON.stringify was given.                                          *)
(***************************************************************************)
\* A path is a sequence of symbols: the separator "/", the dot ".", and
\* names that hold neither.  Flat gives the string it stands for.
Sep == "/"
Dot == "."

RECURSIVE Flat(_)
Flat(path) == IF path = << >> THEN "" ELSE Head(path) \o Flat(Tail(path))

\* The segments of a path: what lies between its separators.
RECURSIVE Split(_)
Split(path) ==
    IF \A i \in 1..Len(path) : path[i] # Sep THEN <<path>>
    ELSE LET i == CHOOSE x \in 1..Len(path) :
                      path[x] = Sep /\ \A y \in 1..(x - 1) : path[y] # Sep
         IN <<SubSeq(path, 1, i - 1)>> \o Split(SubSeq(path, i + 1, Len(path)))

\* The segments joined by separators.
RECURSIVE JoinSegments(_)
JoinSegments(segs) ==
    IF segs = << >> THEN << >>
    ELSE IF Len(segs) = 1 THEN segs[1]
    ELSE segs[1] \o <<Sep>> \o JoinSegments(Tail(segs))

\* Node's normalizeString: empty and "." segments are dropped, ".." takes
\* the segment before it away (or stays, above the root of a relative path).
RECURSIVE normalizeString(_, _, _)
normalizeString(segs, allowAboveRoot, res) ==
    IF segs = << >> THEN res
    ELSE LET seg == Head(segs)
             rest == Tail(segs)
         IN IF seg = << >> \/ seg = <<Dot>>
            THEN normalizeString(rest, allowAboveRoot, res)
            ELSE IF seg = <<Dot, Dot>>
                 THEN IF res # << >> /\ res[Len(res)] # <<Dot, Dot>>
                      THEN normalizeString(rest, allowAboveRoot,
                                           SubSeq(res, 1, Len(res) - 1))
                      ELSE IF allowAboveRoot
                           THEN normalizeString(rest, allowAboveRoot, Append(res, seg))
                           ELSE normalizeString(rest, allowAboveRoot, res)
                 ELSE normalizeString(rest, allowAboveRoot, Append(res, seg))

\* path.posix.normalize
posixNormalize(path) ==
    IF path = << >> THEN <<Dot>>
    ELSE LET isAbsolute == path[1] = Sep
             trailingSeparator == path[Len(path)] = Sep
             body == JoinSegments(normalizeString(Split(path), ~isAbsolute, << >>))
         IN IF body = << >>
            THEN (IF isAbsolute THEN <<Sep>>
                  ELSE IF trailingSeparator THEN <<Dot, Sep>> ELSE <<Dot>>)
            ELSE (IF isAbsolute THEN <<Sep>> ELSE << >>)
                 \o body \o (IF trailingSeparator THEN <<Sep>> ELSE << >>)

\* path.posix.join: the non-empty arguments joined by "/", normalized.
posixJoin(args) ==
    LET used == SelectSeq(args, LAMBDA a : a # << >>)
    IN IF used = << >> THEN <<Dot>> ELSE posixNormalize(JoinSegments(used))

\* The defaults of the environment variables; an unset variable is << >>.
OSS_CACHE_PREFIX == <<"cache", Sep>>
NEXT_BUILD_ID == <<"default">>
DefaultEnv == [OSS_CACHE_PREFIX |-> << >>, NEXT_BUILD_ID |-> << >>]
CacheTypes == {"cache", "fetch"}

\* buildOSSKey under the environment env, as a path.
buildOSSKeyPath(env, key, extension) ==
    LET buildId == IF env.NEXT_BUILD_ID # << >> THEN env.NEXT_BUILD_ID ELSE NEXT_BUILD_ID
        prefix == IF env.OSS_CACHE_PREFIX # << >> THEN env.OSS_CACHE_PREFIX
                  ELSE OSS_CACHE_PREFIX
    IN IF extension = "fetch"
       THEN posixJoin(<<prefix, <<"__fetch">>, buildId, key>>)
       ELSE posixJoin(<<prefix, buildId, key \o <<Dot, extension>> >>)

\* buildOSSKey of the running instance, whose environment sets neither.
buildOSSKey(key, extension) == Flat(buildOSSKeyPath(DefaultEnv, <<key>>, extension))

ObjectKeys == {buildOSSKey(k, t) : k \in Keys, t \in CacheTypes}

JSONStringify(v) == [json |-> v]
JSONParse(s) == s.json
JSONLength(v) == Len(v.kind) + Len(v.type) + Len(v.pageData) + Len(v.payload)

\* JSON.stringify(value) throws a TypeError: the value holds a circular
\* reference or a BigInt.
JSONStringifyThrows(v) == v.payload = "cyclic"

NoObject == [content |-> JSONStringify(NoValue), lastModified |-> 0]

\* What a remote request does: it answers, or it fails (network, auth, timeout).
Faults == {"none", "error"}

\* The failures of a request to OSS, by what the client throws:
\*   error         the request did not get through (no HTTP status)
\*   Timeout       no response within the client's timeout
\*   AccessDenied  HTTP 403
\*   NoSuchBucket  HTTP 404: the bucket does not exist
\*   Quota         HTTP 503: request rate or quota exceeded
\*   BadPayload    get only: the content is no JSON text, JSON.parse throws
OSSFaults == Faults \cup {"Timeout", "AccessDenied", "NoSuchBucket", "Quota", "BadPayload"}

\* An error object: err.code and err.status ("undefined" where it has none).
Err(code, status) == [code |-> code, status |-> status]

NoSuchKey == Err("NoSuchKey", "404")

\* The error object of a failure.
ClientError(fault) ==
    CASE fault = "error" -> Err("RequestError", Undefined)
      [] fault = "Timeout" -> Err("ResponseTimeoutError", Undefined)
      [] fault = "AccessDenied" -> Err("AccessDenied", "403")
      [] fault = "NoSuchBucket" -> Err("NoSuchBucket", "404")
      [] fault = "Quota" -> Err("QpsLimitExceeded", "503")
      [] fault = "BadPayload" -> Err(Undefined, Undefined)

\* The catch of ossCache.get: the error it throws for err.
ossGetCatch(err) ==
    IF err.code = "NoSuchKey" \/ err.status = "404" THEN "Ignorable" ELSE "Recoverable"

\* The catch of ossCache.set.
ossSetCatch(err) == "Recoverable"

\* The catch of ossCache.delete: "none" when it returns normally.
ossDeleteCatch(err) ==
    IF err.code = "NoSuchKey" \/ err.status = "404" THEN "none" ELSE "Recoverable"

\* ossCache.get: [error, result].  client.get throws NoSuchKey for an absent
\* object.
ossCacheGet(bucket, key, cacheType, fault) ==
    LET obj == bucket[buildOSSKey(key, cacheType)] IN
    IF fault # "none" THEN [error |-> ossGetCatch(ClientError(fault)), result |-> Null]
    ELSE IF obj = NoObject THEN [error |-> ossGetCatch(NoSuchKey), result |-> Null]
    ELSE [error |-> "none",
          result |-> Entry(JSONParse(obj.content), obj.lastModified)]

\* ossCache.set: [error, bucket]; the store stamps the object with its time t.
\* JSON.stringify runs inside the try: its TypeError is caught like any other.
ossCacheSet(bucket, key, value, cacheType, fault, t) ==
    IF JSONStringifyThrows(value)
    THEN [error |-> ossSetCatch(Err("TypeError", Undefined)), bucket |-> bucket]
    ELSE IF fault # "none"
    THEN [error |-> ossSetCatch(ClientError(fault)), bucket |-> bucket]
    ELSE [error |-> "none",
          bucket |-> [bucket EXCEPT ![buildOSSKey(key, cacheType)] =
                         [content |-> JSONStringify(value), lastModified |-> t]]]

\* ossCache.delete: [error, bucket]; client.delete of an absent object succeeds.
ossCacheDelete(bucket, key, fault) ==
    IF fault # "none" THEN [error |-> ossDeleteCatch(ClientError(fault)), bucket |-> bucket]
    ELSE [error |-> "none",
          bucket |-> [bucket EXCEPT ![buildOSSKey(key, "cache")] = NoObject]]

(***************************************************************************)
(* TableStore metadata adapter (cache/adapters/tablestore-metadata.js).    *)
(***************************************************************************)
buildPrimaryKey(key) == Flat(NEXT_BUILD_ID) \o "/" \o key

PrimaryKeys == {buildPrimaryKey(k) : k \in Keys}

\* A field the metadata object passed to setMeta does not have.
UndefinedNum == 0 - 1

Meta(lastModified, revalidatedAt, deleted, size) ==
    [lastModified |-> lastModified, revalidatedAt |-> revalidatedAt,
     deleted |-> deleted, size |-> size]

\* No row (getRow finds nothing), and getMeta's null.
NoRow == Meta(0, 0, FALSE, 0)

\* getMeta: the metadata for the row getRow gave, read at time t; null on a
\* failure or a missing row.
getMeta(table, key, fault, t) ==
    LET row == table[buildPrimaryKey(key)] IN
    IF fault = "error" \/ row = NoRow THEN NoRow
    ELSE Meta(IF row.lastModified # 0 THEN row.lastModified ELSE t,
              row.revalidatedAt, row.deleted, row.size)

\* setMeta builds the row before putRow: metadata.lastModified.toFixed(0)
\* and metadata.revalidatedAt.toFixed(0) throw on a missing field.
setMetaThrows(metadata) ==
    metadata.lastModified = UndefinedNum \/ metadata.revalidatedAt = UndefinedNum

\* The attribute columns setMeta writes at time t.
setMetaColumns(metadata, t) ==
    Meta(IF metadata.lastModified # 0 THEN metadata.lastModified ELSE t,
         IF metadata.revalidatedAt # 0 THEN metadata.revalidatedAt ELSE t,
         metadata.deleted,
         IF metadata.size = UndefinedNum THEN 0 ELSE metadata.size)

\* Mutant: the row is built and put whether or not the request fails.
setMeta_WriteOnFault(table, key, metadata, fault, t) ==
    IF setMetaThrows(metadata) THEN table
    ELSE [table EXCEPT ![buildPrimaryKey(key)] = setMetaColumns(metadata, t)]

\* setMeta: the table afterwards; every failure is caught and logged.
setMeta(table, key, metadata, fault, t) ==
    IF setMetaThrows(metadata) \/ fault = "error" THEN table
    ELSE [table EXCEPT ![buildPrimaryKey(key)] = setMetaColumns(metadata, t)]

\* Whether setMeta reaches putRow (a request to the tier).
setMetaCalls(metadata) == IF setMetaThrows(metadata) THEN 0 ELSE 1

\* The metadata object deleteMeta passes to setMeta at time t.
deleteMetaArg(t) == Meta(UndefinedNum, t, TRUE, UndefinedNum)

\* deleteMeta: setMeta with the tombstone.
deleteMeta(table, key, fault, t) == setMeta(table, key, deleteMetaArg(t), fault, t)

(***************************************************************************)
(* Orchestrator (cache/adapters/multi-tier-with-metadata.js) under the     *)
(* cache handler (cache-handler.js).  call[p] is one handler call:         *)
(*   pc         where it waits: the await it is in, or idle / done         *)
(*   op         get / set / delete                                         *)
(*   now        the orchestrator's const now = Date.now()                  *)
(*   entry      get: localCacheEntry                                       *)
(*   metadata   get: what getMeta returned                                 *)
(*   ossError   the error of the call's ossCache request                   *)
(*   metaFaults the metadata requests of the call that failed              *)
(*   ossCalls, metaCalls   requests made to the OSS / TableStore client    *)
(*   result     what the orchestrator returned                             *)
(*   raised     the error the orchestrator threw to the handler            *)
(*   hresult    what the handler's get returned                            *)
(*   hraised    the error the handler threw to the host                    *)
(*   doneAt     Date.now() when the call returned                          *)
(***************************************************************************)
IdleCall ==
    [pc |-> "idle", op |-> "none", key |-> "none", cacheType |-> "none",
     value |-> NoValue, now |-> 0, entry |-> Null, metadata |-> NoRow,
     ossError |-> "none", metaFaults |-> 0, ossCalls |-> 0, metaCalls |-> 0,
     result |-> Null, raised |-> "none", hresult |-> Null, hraised |-> "none",
     doneAt |-> 0]

\* What is remembered of a caller's previous call.
Summary(c) ==
    [op |-> c.op, key |-> c.key, cacheType |-> c.cacheType, value |-> c.value,
     deleted |-> c.metadata.deleted, ossError |-> c.ossError,
     metaFaults |-> c.metaFaults, doneAt |-> c.doneAt]

\* Mutant: an entry whose age equals the TTL still counts as fresh.
IsFresh_Inclusive(entry, t) == t - entry.lastModified <= LOCAL_CACHE_TTL_MS

\* age < LOCAL_CACHE_TTL_MS
IsFresh(entry, t) == t - entry.lastModified < LOCAL_CACHE_TTL_MS

\* Mutant: a record as old as the entry does not validate it.
MetaValidates_Strict(metadata, entry) == metadata.revalidatedAt < entry.lastModified

\* metadata.revalidatedAt <= localCacheEntry.lastModified
MetaValidates(metadata, entry) == metadata.revalidatedAt <= entry.lastModified

\* Mutant: the not-found error is thrown on.
Caught_NotIgnorable(op, error) == error # "Ignorable"

\* Mutant: only the not-found error is taken.
Caught_OnlyIgnorable(op, error) == error = "Ignorable"

\* The errors the try / catch blocks of the orchestrator's op take.
Caught(op, error) == TRUE

\* The errors the try / catch of the handler's get and set takes.
HandlerCaught(op, error) == TRUE

\* The orchestrator returns r; the handler's get turns it into its own result.
Return(c, r) ==
    [c EXCEPT !.pc = "done", !.doneAt = now, !.result = r,
              !.hresult = IF c.op = "get" THEN HandlerGetResult(r, c.cacheType)
                          ELSE Null]

\* The orchestrator throws error; the handler's catch logs it.
Raise(c, error) ==
    [c EXCEPT !.pc = "done", !.doneAt = now, !.raised = error,
              !.hraised = IF HandlerCaught(c.op, error) THEN "none" ELSE error]

\* Mutant: the third tier is asked whether or not OSS is configured.
GetPersistent_Always(c) == [c EXCEPT !.pc = "get_oss", !.ossCalls = @ + 1]

\* get, third tier: ask OSS when it is configured, else miss.
GetPersistent(c) ==
    IF hasOSSConfig THEN [c EXCEPT !.pc = "get_oss", !.ossCalls = @ + 1]
    ELSE Return(c, Null)

\* Mutant: the metadata is read whether or not a local entry exists.
GetAfterLocal_MetaFirst(c) ==
    IF c.entry # Null /\ IsFresh(c.entry, c.now) THEN Return(c, c.entry)
    ELSE IF hasTableStoreConfig
         THEN [c EXCEPT !.pc = "get_meta", !.metaCalls = @ + 1]
         ELSE GetPersistent(c)

\* get, after localCache.get.
GetAfterLocal(c) ==
    IF c.entry # Null /\ IsFresh(c.entry, c.now) THEN Return(c, c.entry)
    ELSE IF c.entry # Null /\ hasTableStoreConfig
         THEN [c EXCEPT !.pc = "get_meta", !.metaCalls = @ + 1]
         ELSE GetPersistent(c)

\* Mutant: without a record the stale entry is served; only a newer record
\* sends the call to the third tier.
GetAfterMeta_TrustLocal(c, metadata) ==
    IF metadata # NoRow /\ metadata.deleted THEN Return(c, Null)
    ELSE IF metadata = NoRow \/ MetaValidates(metadata, c.entry) THEN Return(c, c.entry)
    ELSE GetPersistent(c)

\* get, after getMeta returned metadata.
GetAfterMeta(c, metadata) ==
    IF metadata # NoRow /\ metadata.deleted THEN Return(c, Null)
    ELSE IF metadata # NoRow /\ MetaValidates(metadata, c.entry) THEN Return(c, c.entry)
    ELSE GetPersistent(c)

\* Mutant: an OSS failure is a miss, whatever the local cache held.
GetOnOssError_Miss(c, error) ==
    [c EXCEPT !.pc = "done", !.doneAt = now, !.result = Null, !.hresult = Null]

\* get, OSS gave no value: null result, or the catch of the OSS block and
\* its degraded result.
GetOnOssError(c, error) ==
    IF error = "none" THEN Return(c, Null)
    ELSE IF ~Caught("get", error) THEN Raise(c, error)
    ELSE IF error = "Ignorable" THEN Return(c, Null)
    ELSE IF c.entry # Null THEN Return(c, c.entry)
    ELSE Return(c, Null)

\* The metadata the orchestrator writes for an entry of time t.
WriteMeta(value, t) == Meta(t, t, FALSE, JSONLength(value))

\* An LRUCache call of the harness; flip tells two equal calls in a row apart.
Op(op, key, flip) == [op |-> op, key |-> key, flip |-> flip]

NoOp == Op("none", "none", FALSE)

\* No adapter call was made.
NoProbe == [op |-> "none"]

Init ==
    /\ now = 1
    /\ localCache = << >>
    /\ maxSize = MaxCapacity
    /\ hasOSSConfig \in BOOLEAN
    /\ hasTableStoreConfig \in BOOLEAN
    /\ ossBucket = [o \in ObjectKeys |-> NoObject]
    /\ metaTable \in [PrimaryKeys -> {NoRow, Meta(1, 1, TRUE, 0)}]
    /\ (~hasTableStoreConfig => metaTable = [k \in PrimaryKeys |-> NoRow])
    /\ call = [p \in Procs |-> IdleCall]
    /\ prev = [p \in Procs |-> Summary(IdleCall)]
    /\ lastUse = [k \in LRUKeys |-> 0]
    /\ lastOp = NoOp
    /\ exPos = 0
    /\ probe = NoProbe

Config == <<maxSize, hasOSSConfig, hasTableStoreConfig>>
Harness == <<lastUse, lastOp, exPos, probe>>

CanStart(p) == call[p].pc \in {"idle", "done"}

Begin(p, c) ==
    /\ call' = [call EXCEPT ![p] = c]
    /\ prev' = [prev EXCEPT ![p] = Summary(call[p])]

Step(p, c) ==
    /\ call' = [call EXCEPT ![p] = c]
    /\ UNCHANGED prev

\* handler.get(key, options) up to the orchestrator's first await or return.
HandlerGet(p) ==
    \E k \in Keys, o \in Options :
        LET c == [IdleCall EXCEPT !.op = "get", !.key = k,
                      !.cacheType = IF isFetchCache(o) THEN "fetch" ELSE "cache",
                      !.now = now, !.entry = MapGet(localCache, k)]
        IN /\ CanStart(p)
           /\ localCache' = LRUGet(localCache, k)
           /\ Begin(p, GetAfterLocal(c))
           /\ UNCHANGED <<now, Config, ossBucket, metaTable, Harness>>

\* get: getMeta returns.
GetMetaReturns(p) ==
    \E f \in Faults :
        LET c == call[p]
            metadata == getMeta(metaTable, c.key, f, now)
            c1 == [c EXCEPT !.metadata = metadata,
                            !.metaFaults = IF f = "error" THEN @ + 1 ELSE @]
        IN /\ c.pc = "get_meta"
           /\ localCache' = IF metadata # NoRow /\ metadata.deleted
                            THEN LRUDelete(localCache, c.key) ELSE localCache
           /\ Step(p, GetAfterMeta(c1, metadata))
           /\ UNCHANGED <<now, Config, ossBucket, metaTable, Harness>>

\* get resumes after `await ossCache.get` with r = [error, result]: a value
\* is written through to the local cache, anything else ends the call.
GetOssResume(p, c, r) ==
    LET c1 == [c EXCEPT !.ossError = r.error] IN
    IF r.error = "none" /\ r.result.value # NoValue
    THEN /\ localCache' = LRUSet(localCache, maxSize, c.key, r.result)
         /\ Step(p, IF hasTableStoreConfig
                    THEN [c1 EXCEPT !.pc = "get_setmeta", !.result = r.result,
                                    !.metaCalls = @ + 1]
                    ELSE Return(c1, r.result))
    ELSE /\ Step(p, GetOnOssError(c1, r.error))
         /\ UNCHANGED localCache

\* get: ossCache.get returns or throws.
GetOssReturns(p) ==
    \E f \in Faults :
        LET c == call[p] IN
        /\ c.pc = "get_oss"
        /\ GetOssResume(p, c, ossCacheGet(ossBucket, c.key, c.cacheType, f))
        /\ UNCHANGED <<now, Config, ossBucket, metaTable, Harness>>

\* get: OSS answers the request (or the request fails); the answer is on its
\* way while the caller is still suspended in the await.
GetOssAnswered(p) ==
    \E f \in Faults :
        LET c == call[p]
            r == ossCacheGet(ossBucket, c.key, c.cacheType, f)
        IN /\ c.pc = "get_oss"
           /\ Step(p, [c EXCEPT !.pc = "get_oss_reply", !.ossError = r.error,
                                 !.result = r.result])
           /\ UNCHANGED <<now, localCache, Config, ossBucket, metaTable, Harness>>

\* get: the answer arrives and the caller resumes with it.
GetOssReplyArrives(p) ==
    LET c == call[p] IN
    /\ c.pc = "get_oss_reply"
    /\ GetOssResume(p, [c EXCEPT !.ossError = "none", !.result = Null],
                    [error |-> c.ossError, result |-> c.result])
    /\ UNCHANGED <<now, Config, ossBucket, metaTable, Harness>>

\* get: the write-through setMeta returns.
GetSetMetaReturns(p) ==
    \E f \in Faults :
        LET c == call[p] IN
        /\ c.pc = "get_setmeta"
        /\ metaTable' = setMeta(metaTable, c.key,
                                WriteMeta(c.result.value, c.result.lastModified), f, now)
        /\ Step(p, Return([c EXCEPT !.metaFaults = IF f = "error" THEN @ + 1 ELSE @],
                           c.result))
        /\ UNCHANGED <<now, Config, ossBucket, localCache, Harness>>

\* set, last step: localCache.set(key, {value, lastModified: now}).
SetLocal(p, c) ==
    /\ localCache' = LRUSet(localCache, maxSize, c.key, Entry(c.value, c.now))
    /\ call' = [call EXCEPT ![p] = Return(c, Null)]

\* Mutant: the local cache is written before the metadata write is awaited.
SetAfterOss_LocalFirst(p, c) ==
    IF hasTableStoreConfig
    THEN /\ call' = [call EXCEPT ![p] =
                        [c EXCEPT !.pc = "set_meta",
                                  !.metaCalls = @ + setMetaCalls(WriteMeta(c.value, c.now))]]
         /\ localCache' = LRUSet(localCache, maxSize, c.key, Entry(c.value, c.now))
    ELSE SetLocal(p, c)

\* set, after the OSS block.
SetAfterOss(p, c) ==
    IF hasTableStoreConfig
    THEN /\ call' = [call EXCEPT ![p] =
                        [c EXCEPT !.pc = "set_meta",
                                  !.metaCalls = @ + setMetaCalls(WriteMeta(c.value, c.now))]]
         /\ UNCHANGED localCache
    ELSE SetLocal(p, c)

\* handler.set(key, data, ctx) with data an entry drawn from D, up to the
\* first await.  The orchestrator computes the size of the value before any
\* try block.
HandlerSetOf(p, D) ==
    \E k \in Keys, data \in D, ctx \in Ctxs :
        LET c == [IdleCall EXCEPT !.op = "set", !.key = k,
                      !.cacheType = SetCacheType(data, ctx),
                      !.value = transformValueForStorage(data), !.now = now]
        IN /\ CanStart(p)
           /\ prev' = [prev EXCEPT ![p] = Summary(call[p])]
           /\ IF JSONStringifyThrows(c.value)
              THEN /\ call' = [call EXCEPT ![p] = Raise(c, "TypeError")]
                   /\ UNCHANGED localCache
              ELSE IF hasOSSConfig
              THEN /\ call' = [call EXCEPT ![p] =
                                  [c EXCEPT !.pc = "set_oss", !.ossCalls = @ + 1]]
                   /\ UNCHANGED localCache
              ELSE SetAfterOss(p, c)
           /\ UNCHANGED <<now, Config, ossBucket, metaTable, Harness>>

\* handler.set(key, data, ctx) with data an entry the host serializes.
HandlerSet(p) == HandlerSetOf(p, HostData)

\* The entries of a caller that may hand over a value JSON cannot serialize.
AnyData == HostData \cup {HostEntry("FETCH", Undefined, "cyclic")}

\* handler.set(key, data, ctx) with any data.
HandlerSetAny(p) == HandlerSetOf(p, AnyData)

\* set: ossCache.set returns or throws.
SetOssReturns(p) ==
    \E f \in Faults :
        LET c == call[p]
            r == ossCacheSet(ossBucket, c.key, c.value, c.cacheType, f, now)
            c1 == [c EXCEPT !.ossError = r.error]
        IN /\ c.pc = "set_oss"
           /\ ossBucket' = r.bucket
           /\ IF r.error # "none" /\ ~Caught("set", r.error)
              THEN /\ call' = [call EXCEPT ![p] = Raise(c1, r.error)]
                   /\ UNCHANGED localCache
              ELSE SetAfterOss(p, c1)
           /\ UNCHANGED <<now, Config, metaTable, prev, Harness>>

\* set: setMeta returns.
SetMetaReturns(p) ==
    \E f \in Faults :
        LET c == call[p] IN
        /\ c.pc = "set_meta"
        /\ metaTable' = setMeta(metaTable, c.key, WriteMeta(c.value, c.now), f, now)
        /\ SetLocal(p, [c EXCEPT !.metaFaults = IF f = "error" THEN @ + 1 ELSE @])
        /\ UNCHANGED <<now, Config, ossBucket, prev, Harness>>

\* delete, last step: localCache.delete(key).
DeleteLocal(p, c) ==
    /\ localCache' = LRUDelete(localCache, c.key)
    /\ call' = [call EXCEPT ![p] = Return(c, Null)]

\* Mutant: a failed OSS delete ends the call; the later steps are skipped.
DeleteAfterOss_SkipOnError(p, c) ==
    IF c.ossError = "none" /\ hasTableStoreConfig
    THEN /\ call' = [call EXCEPT ![p] =
                        [c EXCEPT !.pc = "del_meta",
                                  !.metaCalls = @ + setMetaCalls(deleteMetaArg(now))]]
         /\ UNCHANGED localCache
    ELSE IF c.ossError = "none" THEN DeleteLocal(p, c)
    ELSE /\ call' = [call EXCEPT ![p] = Return(c, Null)]
         /\ UNCHANGED localCache

\* delete, after the OSS block.
DeleteAfterOss(p, c) ==
    IF hasTableStoreConfig
    THEN /\ call' = [call EXCEPT ![p] =
                        [c EXCEPT !.pc = "del_meta",
                                  !.metaCalls = @ + setMetaCalls(deleteMetaArg(now))]]
         /\ UNCHANGED localCache
    ELSE DeleteLocal(p, c)

\* handler.set(key, null): the orchestrator's delete, up to the first await.
HandlerSetNull(p) ==
    \E k \in Keys :
        LET c == [IdleCall EXCEPT !.op = "delete", !.key = k, !.now = now]
        IN /\ CanStart(p)
           /\ prev' = [prev EXCEPT ![p] = Summary(call[p])]
           /\ IF hasOSSConfig
              THEN /\ call' = [call EXCEPT ![p] =
                                  [c EXCEPT !.pc = "del_oss", !.ossCalls = @ + 1]]
                   /\ UNCHANGED localCache
              ELSE DeleteAfterOss(p, c)
           /\ UNCHANGED <<now, Config, ossBucket, metaTable, Harness>>

\* delete: ossCache.delete returns or throws.
DeleteOssReturns(p) ==
    \E f \in Faults :
        LET c == call[p]
            r == ossCacheDelete(ossBucket, c.key, f)
            c1 == [c EXCEPT !.ossError = r.error]
        IN /\ c.pc = "del_oss"
           /\ ossBucket' = r.bucket
           /\ IF r.error # "none" /\ ~Caught("delete", r.error)
              THEN /\ call' = [call EXCEPT ![p] = Raise(c1, r.error)]
                   /\ UNCHANGED localCache
              ELSE DeleteAfterOss(p, c1)
           /\ UNCHANGED <<now, Config, metaTable, prev, Harness>>

\* delete: deleteMeta returns.
DeleteMetaReturns(p) ==
    \E f \in Faults :
        LET c == call[p] IN
        /\ c.pc = "del_meta"
        /\ metaTable' = deleteMeta(metaTable, c.key, f, now)
        /\ DeleteLocal(p, [c EXCEPT !.metaFaults =
                              IF f = "error" /\ ~setMetaThrows(deleteMetaArg(now))
                              THEN @ + 1 ELSE @])
        /\ UNCHANGED <<now, Config, ossBucket, prev, Harness>>

\* The tags the host revalidates.
Tags == {"t1"}

\* Mutant: revalidating a tag empties the local cache.
revalidateTag_Clear(m, tag) == LRUClear(m)

\* CustomCacheHandler.revalidateTag: the local cache afterwards.  The body
\* only logs; no tag index exists.
revalidateTag(m, tag) == m

\* handler.revalidateTag(tag): it runs to its end without an await.
RevalidateTag(p) ==
    \E tag \in Tags :
        /\ CanStart(p)
        /\ localCache' = revalidateTag(localCache, tag)
        /\ Begin(p, [IdleCall EXCEPT !.pc = "done", !.op = "revalidateTag",
                                     !.key = tag, !.now = now, !.doneAt = now])
        /\ UNCHANGED <<now, Config, ossBucket, metaTable, Harness>>

\* Time passes.
Tick ==
    /\ now < MaxTime
    /\ now' = now + 1
    /\ UNCHANGED <<localCache, Config, ossBucket, metaTable, call, prev, Harness>>

Next ==
    \/ \E p \in Procs : HandlerGet(p)
    \/ \E p \in Procs : GetMetaReturns(p)
    \/ \E p \in Procs : GetOssReturns(p)
    \/ \E p \in Procs : GetSetMetaReturns(p)
    \/ \E p \in Procs : HandlerSet(p)
    \/ \E p \in Procs : SetOssReturns(p)
    \/ \E p \in Procs : SetMetaReturns(p)
    \/ \E p \in Procs : HandlerSetNull(p)
    \/ \E p \in Procs : DeleteOssReturns(p)
    \/ \E p \in Procs : DeleteMetaReturns(p)
    \/ \E p \in Procs : RevalidateTag(p)
    \/ Tick

Spec == Init /\ [][Next]_vars

\* The instance with a caller whose values may not be serializable.
NextAny ==
    \/ Next
    \/ \E p \in Procs : HandlerSetAny(p)

SpecAny == Init /\ [][NextAny]_vars

(***************************************************************************)
(* An instance that starts against remote tiers other instances have       *)
(* used: at time 2 the bucket may hold objects written at time 1, and the  *)
(* row of a key may be a tombstone of time 2 (a delete of another writer   *)
(* whose OSS delete failed or whose objects it does not remove).           *)
(***************************************************************************)
OldObjects == {[content |-> JSONStringify(v), lastModified |-> 1] : v \in Values}

InitShared ==
    /\ now = 2
    /\ localCache = << >>
    /\ maxSize = MaxCapacity
    /\ hasOSSConfig = TRUE
    /\ hasTableStoreConfig = TRUE
    /\ ossBucket \in [ObjectKeys -> {NoObject} \cup OldObjects]
    /\ metaTable \in [PrimaryKeys -> {NoRow, Meta(1, 2, TRUE, 0)}]
    /\ call = [p \in Procs |-> IdleCall]
    /\ prev = [p \in Procs |-> Summary(IdleCall)]
    /\ lastUse = [k \in LRUKeys |-> 0]
    /\ lastOp = NoOp
    /\ exPos = 0
    /\ probe = NoProbe

SpecShared == InitShared /\ [][Next]_vars

(***************************************************************************)
(* Progress.  The OSS client is built with timeout: 60000, so a request    *)
(* to OSS settles (it answers, or the timeout rejects it) and the await    *)
(* resumes: the returns of ossCache are weakly fair.  deleteMeta settles   *)
(* without a request (setMeta throws before putRow).  The TableStore       *)
(* client is built without any timeout and the orchestrator awaits getMeta *)
(* and setMeta without a timer of its own: nothing in the program makes    *)
(* those requests settle, so their returns carry no fairness.              *)
(***************************************************************************)
Fairness ==
    \A p \in Procs :
        /\ WF_vars(GetOssReturns(p))
        /\ WF_vars(SetOssReturns(p))
        /\ WF_vars(DeleteOssReturns(p))
        /\ WF_vars(DeleteMetaReturns(p))

SpecLive == Init /\ [][Next]_vars /\ Fairness

(***************************************************************************)
(* LRUCache driven directly: any sequence of get / set / delete / clear.   *)
(* lastUse ranks the keys by their last set or hit get (0: never used),    *)
(* kept apart from the Map's own order.                                    *)
(***************************************************************************)
\* The keys used so far, other than k.
UsedBut(lu, k) == {x \in LRUKeys : lu[x] > 0 /\ x # k}

\* k was just set or hit: it ranks last, the others keep their order.
Touch(lu, k) ==
    [x \in LRUKeys |->
        IF x = k THEN Cardinality(UsedBut(lu, k)) + 1
        ELSE IF lu[x] = 0 THEN 0
        ELSE Cardinality({y \in UsedBut(lu, k) : lu[y] <= lu[x]})]

\* The run of section 8 of the specification: capacity 2, set A, set B,
\* set C, get B, set D.
Example == << <<"set", "A">>, <<"set", "B">>, <<"set", "C">>,
              <<"get", "B">>, <<"set", "D">> >>

\* exPos counts the calls made while the run is Example so far; Len(Example) + 1
\* once it has left it.
Follow(pos, op, k) ==
    IF pos < Len(Example) /\ Example[pos + 1] = <<op, k>> THEN pos + 1
    ELSE Len(Example) + 1

InitLRU ==
    /\ now = 1
    /\ localCache = << >>
    /\ maxSize \in 0..MaxCapacity
    /\ hasOSSConfig = FALSE
    /\ hasTableStoreConfig = FALSE
    /\ ossBucket = [o \in ObjectKeys |-> NoObject]
    /\ metaTable = [k \in PrimaryKeys |-> NoRow]
    /\ call = [p \in Procs |-> IdleCall]
    /\ prev = [p \in Procs |-> Summary(IdleCall)]
    /\ lastUse = [k \in LRUKeys |-> 0]
    /\ lastOp = NoOp
    /\ exPos = 0
    /\ probe = NoProbe

Rest == <<now, Config, ossBucket, metaTable, call, prev>>

\* The harness notes the call: its argument v, and whether the cache held k
\* and how many entries it held when the call was made.
CalledWith(op, k, v) ==
    /\ lastOp' = Op(op, k, ~lastOp.flip)
    /\ exPos' = Follow(exPos, op, k)
    /\ probe' = [op |-> op, value |-> v, had |-> MapHas(localCache, k),
                 size |-> LRUSize(localCache)]
    /\ UNCHANGED Rest

Called(op, k) == CalledWith(op, k, NoValue)

LRUCacheGet(k) ==
    /\ localCache' = LRUGet(localCache, k)
    /\ lastUse' = IF MapGet(localCache, k) # Null THEN Touch(lastUse, k) ELSE lastUse
    /\ Called("get", k)

LRUCacheSet(k, v) ==
    /\ localCache' = LRUSet(localCache, maxSize, k, Entry(v, now))
    /\ lastUse' = Touch(lastUse, k)
    /\ CalledWith("set", k, v)

LRUCacheDelete(k) ==
    /\ localCache' = LRUDelete(localCache, k)
    /\ UNCHANGED lastUse
    /\ Called("delete", k)

LRUCacheClear ==
    /\ localCache' = LRUClear(localCache)
    /\ UNCHANGED lastUse
    /\ Called("clear", "none")

NextLRU ==
    \/ \E k \in LRUKeys : LRUCacheGet(k)
    \/ \E k \in LRUKeys, v \in Values : LRUCacheSet(k, v)
    \/ \E k \in LRUKeys : LRUCacheDelete(k)
    \/ LRUCacheClear

SpecLRU == InitLRU /\ [][NextLRU]_vars

(***************************************************************************)
(* The OSS adapter driven directly: ossCache.get / set / delete under      *)
(* every failure of the client (SpecOSS), and buildOSSKey under            *)
(* environments and keys of several shapes (SpecKeys).  probe holds the    *)
(* last call and its outcome.                                              *)
(***************************************************************************)
Kinds == {"cache", "fetch", "composable"}

\* Keys as paths: A, /A, B/../A.
PathKeys == {<<"A">>, <<Sep, "A">>, <<"B", Sep, Dot, Dot, Sep, "A">>}

\* NEXT_BUILD_ID and OSS_CACHE_PREFIX: unset, or set.
BuildIds == {<< >>, <<"b1">>}
Prefixes == {<< >>, <<"p">>}

\* An entry's identity: (buildId, kind, key).
Triples == [buildId : BuildIds, kind : Kinds, key : PathKeys]

InitOSS ==
    /\ now = 1
    /\ localCache = << >>
    /\ maxSize = MaxCapacity
    /\ hasOSSConfig = TRUE
    /\ hasTableStoreConfig = FALSE
    /\ ossBucket = [o \in ObjectKeys |-> NoObject]
    /\ metaTable = [k \in PrimaryKeys |-> NoRow]
    /\ call = [p \in Procs |-> IdleCall]
    /\ prev = [p \in Procs |-> Summary(IdleCall)]
    /\ lastUse = [k \in LRUKeys |-> 0]
    /\ lastOp = NoOp
    /\ exPos = 0
    /\ probe = NoProbe

RestOSS == <<now, localCache, Config, metaTable, call, prev, lastUse, lastOp, exPos>>

\* ossCache.get(key, cacheType)
OssCacheGet ==
    \E k \in Keys, t \in CacheTypes, f \in OSSFaults :
        LET present == ossBucket[buildOSSKey(k, t)] # NoObject
            r == ossCacheGet(ossBucket, k, t, f)
        IN /\ f = "BadPayload" => present
           /\ probe' = [op |-> "get", key |-> k, cacheType |-> t, fault |-> f,
                        present |-> present, error |-> r.error, value |-> r.result.value]
           /\ UNCHANGED <<ossBucket, RestOSS>>

\* ossCache.set(key, value, cacheType)
OssCacheSet ==
    \E k \in Keys, t \in CacheTypes, v \in Values, f \in OSSFaults \ {"BadPayload"} :
        LET r == ossCacheSet(ossBucket, k, v, t, f, now)
        IN /\ ossBucket' = r.bucket
           /\ probe' = [op |-> "set", key |-> k, cacheType |-> t, fault |-> f,
                        present |-> ossBucket[buildOSSKey(k, t)] # NoObject,
                        error |-> r.error, value |-> v]
           /\ UNCHANGED RestOSS

\* ossCache.delete(key)
OssCacheDelete ==
    \E k \in Keys, f \in OSSFaults \ {"BadPayload"} :
        LET r == ossCacheDelete(ossBucket, k, f)
        IN /\ ossBucket' = r.bucket
           /\ probe' = [op |-> "delete", key |-> k, cacheType |-> "cache", fault |-> f,
                        present |-> ossBucket[buildOSSKey(k, "cache")] # NoObject,
                        error |-> r.error, value |-> NoValue]
           /\ UNCHANGED RestOSS

\* buildOSSKey for two entries under one prefix.
BuildOSSKeys ==
    \E prefix \in Prefixes, a \in Triples, b \in Triples :
        LET Env(x) == [OSS_CACHE_PREFIX |-> prefix, NEXT_BUILD_ID |-> x.buildId]
        IN /\ probe' = [op |-> "buildOSSKey", prefix |-> prefix, a |-> a, b |-> b,
                        keyA |-> buildOSSKeyPath(Env(a), a.key, a.kind),
                        keyB |-> buildOSSKeyPath(Env(b), b.key, b.kind)]
           /\ UNCHANGED <<ossBucket, RestOSS>>

NextOSS ==
    \/ OssCacheGet
    \/ OssCacheSet
    \/ OssCacheDelete

SpecOSS == InitOSS /\ [][NextOSS]_vars

\* buildOSSKey alone: it reads the environment and its arguments only.
NextKeys == BuildOSSKeys

SpecKeys == InitOSS /\ [][NextKeys]_vars

\* The errors the try / catch of the adapter's getMeta, setMeta and
\* deleteMeta takes: all of them.
MetaCaught(op, error) == TRUE

\* tablestoreMetadata.getMeta(key) with or without a client: [raised, result].
tablestoreGetMeta(configured, table, key, fault, t) ==
    IF ~configured THEN [raised |-> "none", result |-> NoRow]
    ELSE [raised |-> IF fault = "error" /\ ~MetaCaught("getMeta", fault)
                     THEN fault ELSE "none",
          result |-> getMeta(table, key, fault, t)]

\* tablestoreMetadata.setMeta(key, metadata): [raised, table].
tablestoreSetMeta(configured, table, key, metadata, fault, t) ==
    IF ~configured THEN [raised |-> "none", table |-> table]
    ELSE [raised |-> IF (fault = "error" \/ setMetaThrows(metadata))
                        /\ ~MetaCaught("setMeta", fault)
                     THEN "error" ELSE "none",
          table |-> setMeta(table, key, metadata, fault, t)]

\* tablestoreMetadata.deleteMeta(key): [raised, table].
tablestoreDeleteMeta(configured, table, key, fault, t) ==
    IF ~configured THEN [raised |-> "none", table |-> table]
    ELSE [raised |-> IF (fault = "error" \/ setMetaThrows(deleteMetaArg(t)))
                        /\ ~MetaCaught("deleteMeta", fault)
                     THEN "error" ELSE "none",
          table |-> deleteMeta(table, key, fault, t)]

(***************************************************************************)
(* Two handler calls of one instance in flight at once: caller 1 issues    *)
(* two gets, caller 2 issues one set or delete, and they interleave at    *)
(* their awaits.  An answer of OSS is computed when OSS serves the request and   *)
(* reaches the caller later.  The bucket may hold an object of time 1.     *)
(***************************************************************************)
Reader == 1
Writer == 2
Callers == {Reader, Writer}

\* The pages the writer sets.
RaceData == {HostEntry("PAGE", "object", "p1"), HostEntry("PAGE", "object", "p3")}

HandlerSetRace(p) == HandlerSetOf(p, RaceData)

InitRace ==
    /\ now = 2
    /\ localCache = << >>
    /\ maxSize = MaxCapacity
    /\ hasOSSConfig = TRUE
    /\ hasTableStoreConfig \in BOOLEAN
    /\ \E k \in Keys, d \in RaceData :
           ossBucket = [ossCacheSet([o \in ObjectKeys |-> NoObject], k,
                                    transformValueForStorage(d), "cache", "none", 1)
                        EXCEPT !.error = "none"].bucket
    /\ metaTable = [k \in PrimaryKeys |-> NoRow]
    /\ call = [p \in Callers |-> IdleCall]
    /\ prev = [p \in Callers |-> Summary(IdleCall)]
    /\ lastUse = [k \in LRUKeys |-> 0]
    /\ lastOp = NoOp
    /\ exPos = 0
    /\ probe = NoProbe

\* The reader makes two gets, the writer one set or one delete.
SecondGetAtMost == prev[Reader].op = "none"
FirstWrite == call[Writer].pc = "idle"

NextRace ==
    \/ SecondGetAtMost /\ HandlerGet(Reader)
    \/ GetMetaReturns(Reader)
    \/ GetOssAnswered(Reader)
    \/ GetOssReplyArrives(Reader)
    \/ GetSetMetaReturns(Reader)
    \/ FirstWrite /\ HandlerSetRace(Writer)
    \/ SetOssReturns(Writer)
    \/ SetMetaReturns(Writer)
    \/ FirstWrite /\ HandlerSetNull(Writer)
    \/ DeleteOssReturns(Writer)
    \/ DeleteMetaReturns(Writer)
    \/ Tick

SpecRace == InitRace /\ [][NextRace]_vars

(***************************************************************************)
(* This instance next to another instance of the application that shares   *)
(* the bucket and the table.  The other instance sets a key once: its OSS  *)
(* write succeeds, its metadata write succeeds or fails.  probe notes the  *)
(* set.                                                                    *)
(***************************************************************************)
\* The page the other instance sets.
PeerData == {HostEntry("PAGE", "object", "p3")}

InitPeer ==
    /\ Init
    /\ hasOSSConfig /\ hasTableStoreConfig
    /\ metaTable = [k \in PrimaryKeys |-> NoRow]

\* multiTierCacheWithMetadata.set of the other instance, start to end, as
\* far as the shared tiers see it.
PeerSet ==
    \E k \in Keys, d \in PeerData, f \in Faults :
        LET v == transformValueForStorage(d)
            t == SetCacheType(d, [fetchCache |-> FALSE])
        IN /\ probe = NoProbe
           /\ ossBucket' = ossCacheSet(ossBucket, k, v, t, "none", now).bucket
           /\ metaTable' = setMeta(metaTable, k, WriteMeta(v, now), f, now)
           /\ probe' = [op |-> "peerSet", key |-> k, cacheType |-> t, value |-> v,
                        at |-> now, metaFault |-> f]
           /\ UNCHANGED <<now, localCache, Config, call, prev, lastUse, lastOp, exPos>>

NextPeer ==
    \/ Next
    \/ PeerSet

SpecPeer == InitPeer /\ [][NextPeer]_vars

(***************************************************************************)
(* The two-tier orchestrator multiTierCache (cache/adapters/multi-tier.js) *)
(* on the same local cache and bucket, called where the three-tier one is. *)
(* Its ossCache is loaded exactly when OSS is configured.                  *)
(***************************************************************************)
\* multiTierCache.get(key, cacheType) up to its await or return.
TwoTierGet(p) ==
    \E k \in Keys, o \in Options :
        LET c == [IdleCall EXCEPT !.op = "get", !.key = k,
                      !.cacheType = IF isFetchCache(o) THEN "fetch" ELSE "cache",
                      !.now = now, !.entry = MapGet(localCache, k)]
        IN /\ CanStart(p)
           /\ localCache' = LRUGet(localCache, k)
           /\ Begin(p, IF c.entry # Null /\ now - c.entry.lastModified < LOCAL_CACHE_TTL_MS
                       THEN Return(c, c.entry)
                       ELSE IF hasOSSConfig
                       THEN [c EXCEPT !.pc = "get_oss", !.ossCalls = @ + 1]
                       ELSE Return(c, Null))
           /\ UNCHANGED <<now, Config, ossBucket, metaTable, Harness>>

\* multiTierCache.get: ossCache.get returns or throws.
TwoTierGetOssReturns(p) ==
    \E f \in Faults :
        LET c == call[p]
            r == ossCacheGet(ossBucket, c.key, c.cacheType, f)
            c1 == [c EXCEPT !.ossError = r.error]
        IN /\ c.pc = "get_oss"
           /\ IF r.error = "none" /\ r.result.value # NoValue
              THEN /\ localCache' = LRUSet(localCache, maxSize, c.key, r.result)
                   /\ Step(p, Return(c1, r.result))
              ELSE /\ UNCHANGED localCache
                   /\ Step(p, IF r.error = "Recoverable" /\ c.entry # Null
                              THEN Return(c1, c.entry) ELSE Return(c1, Null))
           /\ UNCHANGED <<now, Config, ossBucket, metaTable, Harness>>

\* multiTierCache.set(key, value, cacheType) up to its await or return.
TwoTierSet(p) ==
    \E k \in Keys, data \in AnyData, ctx \in Ctxs :
        LET c == [IdleCall EXCEPT !.op = "set", !.key = k,
                      !.cacheType = SetCacheType(data, ctx),
                      !.value = transformValueForStorage(data), !.now = now]
        IN /\ CanStart(p)
           /\ prev' = [prev EXCEPT ![p] = Summary(call[p])]
           /\ IF hasOSSConfig
              THEN /\ call' = [call EXCEPT ![p] =
                                  [c EXCEPT !.pc = "set_oss", !.ossCalls = @ + 1]]
                   /\ UNCHANGED localCache
              ELSE /\ localCache' = LRUSet(localCache, maxSize, k, Entry(c.value, c.now))
                   /\ call' = [call EXCEPT ![p] = Return(c, Null)]
           /\ UNCHANGED <<now, Config, ossBucket, metaTable, Harness>>

\* multiTierCache.set: ossCache.set returns or throws; both branches store
\* the entry locally.
TwoTierSetOssReturns(p) ==
    \E f \in Faults :
        LET c == call[p]
            r == ossCacheSet(ossBucket, c.key, c.value, c.cacheType, f, now)
        IN /\ c.pc = "set_oss"
           /\ ossBucket' = r.bucket
           /\ localCache' = LRUSet(localCache, maxSize, c.key, Entry(c.value, c.now))
           /\ call' = [call EXCEPT ![p] = Return([c EXCEPT !.ossError = r.error], Null)]
           /\ UNCHANGED <<now, Config, metaTable, prev, Harness>>

\* multiTierCache.delete(key) up to its await or return.
TwoTierDelete(p) ==
    \E k \in Keys :
        LET c == [IdleCall EXCEPT !.op = "delete", !.key = k, !.now = now]
        IN /\ CanStart(p)
           /\ prev' = [prev EXCEPT ![p] = Summary(call[p])]
           /\ IF hasOSSConfig
              THEN /\ call' = [call EXCEPT ![p] =
                                  [c EXCEPT !.pc = "del_oss", !.ossCalls = @ + 1]]
                   /\ UNCHANGED localCache
              ELSE /\ localCache' = LRUDelete(localCache, k)
                   /\ call' = [call EXCEPT ![p] = Return(c, Null)]
           /\ UNCHANGED <<now, Config, ossBucket, metaTable, Harness>>

\* multiTierCache.delete: ossCache.delete returns or throws; both branches
\* delete the local entry.
TwoTierDeleteOssReturns(p) ==
    \E f \in Faults :
        LET c == call[p]
            r == ossCacheDelete(ossBucket, c.key, f)
        IN /\ c.pc = "del_oss"
           /\ ossBucket' = r.bucket
           /\ localCache' = LRUDelete(localCache, c.key)
           /\ call' = [call EXCEPT ![p] = Return([c EXCEPT !.ossError = r.error], Null)]
           /\ UNCHANGED <<now, Config, metaTable, prev, Harness>>

\* A step of a call of multiTierCache.
NextTwoTier ==
    \/ \E p \in Procs : TwoTierGet(p)
    \/ \E p \in Procs : TwoTierGetOssReturns(p)
    \/ \E p \in Procs : TwoTierSet(p)
    \/ \E p \in Procs : TwoTierSetOssReturns(p)
    \/ \E p \in Procs : TwoTierDelete(p)
    \/ \E p \in Procs : TwoTierDeleteOssReturns(p)

(***************************************************************************)
(* The handler's two transforms alone: the value handler.set stores for a  *)
(* host entry, and what handler.get makes of it for a 'cache' read.  probe *)
(* is the last pair.                                                       *)
(***************************************************************************)
\* Host entries of every kind the handler knows; pageData is an object or
\* a string (for APP_PAGE the field stands for rscData).
KindData ==
    {HostEntry(kind, pageData, payload) :
        kind \in {"ROUTE", "APP_ROUTE", "PAGE", "PAGES", "APP_PAGE", "REDIRECT", "FETCH"},
        pageData \in {"object", "string"},
        payload \in {"p1", "p2", "p3"}}

InitTransform ==
    /\ Init
    /\ ~hasOSSConfig /\ ~hasTableStoreConfig

\* transformValueForStorage(data) as set calls it, then the value of the
\* entry get returns for the stored value.
TransformRoundTrip ==
    \E data \in KindData :
        LET stored == transformValueForStorage(data)
        IN /\ probe' = [op |-> "roundTrip", data |-> data, stored |-> stored,
                        back |-> HandlerGetResult(Entry(stored, now), "cache").value]
           /\ UNCHANGED <<now, localCache, Config, ossBucket, metaTable, call, prev,
                          lastUse, lastOp, exPos>>

NextTransform ==
    \/ TransformRoundTrip
    \/ Tick

SpecTransform == InitTransform /\ [][NextTransform]_vars

(***************************************************************************)
(* The metadata adapter alone, called by a harness; probe is its last      *)
(* call.  The client may be missing (no configuration).                    *)
(***************************************************************************)
MetaRows == {NoRow, Meta(1, 1, TRUE, 0), Meta(1, 1, FALSE, 5)}

InitMeta ==
    /\ now = 1
    /\ localCache = << >>
    /\ maxSize = MaxCapacity
    /\ hasOSSConfig = FALSE
    /\ hasTableStoreConfig \in BOOLEAN
    /\ ossBucket = [o \in ObjectKeys |-> NoObject]
    /\ metaTable \in [PrimaryKeys -> MetaRows]
    /\ call = [p \in Procs |-> IdleCall]
    /\ prev = [p \in Procs |-> Summary(IdleCall)]
    /\ lastUse = [k \in LRUKeys |-> 0]
    /\ lastOp = NoOp
    /\ exPos = 0
    /\ probe = NoProbe

RestMeta == <<localCache, Config, ossBucket, call, prev, lastUse, lastOp, exPos>>

MetaProbe(op, key, fault, raised, result) ==
    [op |-> op, key |-> key, fault |-> fault, raised |-> raised, result |-> result,
     before |-> metaTable, after |-> metaTable']

\* tablestoreMetadata.getMeta(key)
TablestoreGetMeta ==
    \E k \in Keys, f \in Faults :
        LET r == tablestoreGetMeta(hasTableStoreConfig, metaTable, k, f, now)
        IN /\ metaTable' = metaTable
           /\ probe' = MetaProbe("getMeta", k, f, r.raised, r.result)
           /\ UNCHANGED <<now, RestMeta>>

\* tablestoreMetadata.setMeta(key, metadata) with the orchestrator's metadata
TablestoreSetMeta ==
    \E k \in Keys, v \in Values, f \in Faults :
        LET r == tablestoreSetMeta(hasTableStoreConfig, metaTable, k,
                                   WriteMeta(v, now), f, now)
        IN /\ metaTable' = r.table
           /\ probe' = MetaProbe("setMeta", k, f, r.raised, NoRow)
           /\ UNCHANGED <<now, RestMeta>>

\* tablestoreMetadata.deleteMeta(key)
TablestoreDeleteMeta ==
    \E k \in Keys, f \in Faults :
        LET r == tablestoreDeleteMeta(hasTableStoreConfig, metaTable, k, f, now)
        IN /\ metaTable' = r.table
           /\ probe' = MetaProbe("deleteMeta", k, f, r.raised, NoRow)
           /\ UNCHANGED <<now, RestMeta>>

\* Time passes between the harness's calls.
TickMeta ==
    /\ now < MaxTime
    /\ now' = now + 1
    /\ UNCHANGED <<metaTable, probe, RestMeta>>

NextMeta ==
    \/ TablestoreGetMeta
    \/ TablestoreSetMeta
    \/ TablestoreDeleteMeta
    \/ TickMeta

SpecMeta == InitMeta /\ [][NextMeta]_vars

KeySet(m) == {m[i].key : i \in 1..Len(m)}

\* The key of m whose last set or hit get is the oldest.
Oldest(m) == CHOOSE k \in KeySet(m) : \A x \in KeySet(m) : lastUse[k] <= lastUse[x]

(***************************************************************************)
(* C1.  Eviction bound: with capacity N >= 1, size() <= N after every      *)
(* LRUCache call.  The orchestrator changes localCache only by LRUCache    *)
(* get / set / delete calls, each run to its end before the next, so       *)
(* every interleaving of its calls is one of the sequences of SpecLRU.     *)
(***************************************************************************)
C1_EvictionBound == maxSize >= 1 => LRUSize(localCache) <= maxSize

\* Capacity 2, and set A, set B, set C were made: the third set had to evict.
C1_Witness == maxSize = 2 /\ exPos = 3 /\ LRUSize(localCache) = 2

\* A step of the harness: an LRUCache call was made.
LRUStep == lastOp'.flip # lastOp.flip

\* The key in the most-recent position.
MostRecent(m) == m[Len(m)].key

\* What the call lastOp' did to the cache.
LRUStepOrdered ==
    LET k == lastOp'.key
        op == lastOp'.op
    IN /\ (op = "get" /\ MapHas(localCache, k)) =>
              /\ MostRecent(localCache') = k
              /\ KeySet(localCache') = KeySet(localCache)
              /\ \A x \in LRUKeys : MapGet(localCache', x) = MapGet(localCache, x)
       /\ (op = "get" /\ ~MapHas(localCache, k)) => localCache' = localCache
       /\ (op = "set" /\ maxSize >= 1) => MostRecent(localCache') = k
       /\ (op = "set" /\ maxSize >= 1 /\ ~MapHas(localCache, k)
             /\ LRUSize(localCache) = maxSize) =>
              KeySet(localCache') = (KeySet(localCache) \ {Oldest(localCache)}) \cup {k}
       /\ (maxSize = 2 /\ exPos' = 3) => KeySet(localCache') = {"B", "C"}
       /\ (maxSize = 2 /\ exPos' = 5) => KeySet(localCache') = {"B", "D"}

(***************************************************************************)
(* C2.  LRU ordering: a get that hits and every set leave the key in the   *)
(* most-recent position; a set of a new key into a full cache evicts       *)
(* exactly the key whose last set or hit get is the oldest; a get of an    *)
(* absent key changes nothing; with capacity 2, set A, set B, set C        *)
(* leaves {B, C} and then get B, set D leaves {B, D}.                      *)
(***************************************************************************)
C2_LRUOrdering == [][LRUStep => LRUStepOrdered]_vars

\* The run of the example was made with capacity 2.
C2_Witness == maxSize = 2 /\ exPos = 5 /\ MapKeys(localCache) = <<"B", "D">>

(***************************************************************************)
(* The orchestrator's claims, on the calls of Spec.                        *)
(***************************************************************************)
DoneGet(c) == c.pc = "done" /\ c.op = "get"
DoneSet(c) == c.pc = "done" /\ c.op = "set"
DoneDelete(c) == c.pc = "done" /\ c.op = "delete"

\* now - localCacheEntry.lastModified of a get that found an entry.
Age(c) == c.now - c.entry.lastModified

\* The get was answered from the local entry without any remote request.
FastPath(c) ==
    c.entry # Null /\ c.result = c.entry /\ c.metaCalls = 0 /\ c.ossCalls = 0

(***************************************************************************)
(* C3.  Fast path: a get returns the local entry with no request to the    *)
(* metadata tier and none to the persistent tier exactly when a local      *)
(* entry exists and its age is strictly below the TTL; a get of K that     *)
(* follows set(K, V) while the entry is fresh returns V that way.          *)
(***************************************************************************)
C3_FastPath ==
    \A p \in Procs :
        LET c == call[p] IN
        DoneGet(c) =>
            /\ FastPath(c) <=> (c.entry # Null /\ Age(c) < LOCAL_CACHE_TTL_MS)
            /\ (prev[p].op = "set" /\ prev[p].key = c.key) =>
                   /\ c.entry.value = prev[p].value
                   /\ Age(c) < LOCAL_CACHE_TTL_MS =>
                          (FastPath(c) /\ c.result.value = prev[p].value)

\* A get right after a set of the key, one tick into the entry's life.
C3_Witness ==
    \E p \in Procs :
        /\ DoneGet(call[p]) /\ FastPath(call[p])
        /\ prev[p].op = "set" /\ prev[p].key = call[p].key
        /\ Age(call[p]) = 1
        /\ hasOSSConfig /\ hasTableStoreConfig

(***************************************************************************)
(* C4.  Staleness short-circuit: when the local entry is stale and the     *)
(* metadata tier returns a record that is no tombstone and whose           *)
(* revalidatedAt <= entry.lastModified, get returns the local entry and    *)
(* makes no request to the persistent tier.                                *)
(***************************************************************************)
C4_StalenessShortCircuit ==
    \A p \in Procs :
        LET c == call[p] IN
        (/\ DoneGet(c) /\ c.entry # Null /\ Age(c) >= LOCAL_CACHE_TTL_MS
         /\ c.metadata # NoRow /\ ~c.metadata.deleted
         /\ c.metadata.revalidatedAt <= c.entry.lastModified)
        => (c.result = c.entry /\ c.ossCalls = 0)

\* A stale entry validated by a record of the same time, OSS configured.
C4_Witness ==
    \E p \in Procs :
        LET c == call[p] IN
        /\ DoneGet(c) /\ c.entry # Null /\ Age(c) >= LOCAL_CACHE_TTL_MS
        /\ c.metadata # NoRow /\ ~c.metadata.deleted
        /\ c.metadata.revalidatedAt = c.entry.lastModified
        /\ hasOSSConfig /\ c.result = c.entry

\* No metadata request of the call was answered.
MetaUnavailable(c) == c.metaFaults = c.metaCalls

C6_DegradeOnFailure ==
    \A p \in Procs :
        LET c == call[p] IN
        (DoneGet(c) /\ c.ossError = "Recoverable") =>
            /\ c.raised = "none" /\ c.hraised = "none"
            /\ c.entry # Null => (c.result = c.entry /\ c.hresult # Null)
            /\ c.entry = Null => (c.result = Null /\ c.hresult = Null)

\* A stale entry served because OSS failed, after metadata did not validate it.
C6_Witness ==
    \E p \in Procs :
        LET c == call[p] IN
        /\ DoneGet(c) /\ c.ossError = "Recoverable"
        /\ c.entry # Null /\ Age(c) >= LOCAL_CACHE_TTL_MS
        /\ c.result = c.entry /\ c.metaCalls = 1

\* p's get of a key with no local entry, no metadata row and no object takes a step.
PureMissStep(p) ==
    /\ call'[p] # call[p]
    /\ call'[p].op = "get"
    /\ call'[p].entry = Null
    /\ metaTable[buildPrimaryKey(call'[p].key)] = NoRow
    /\ ossBucket[buildOSSKey(call'[p].key, call'[p].cacheType)] = NoObject
    /\ call'[p].pc = "done" => call'[p].ossError = "Ignorable"

(***************************************************************************)
(* C7.  Pure miss: with no local entry, no metadata record and the         *)
(* persistent tier reporting not-found, get returns null, raises nothing,  *)
(* and creates neither a local entry nor a metadata record for the key.    *)
(***************************************************************************)
C7_PureMiss ==
    [][\A p \in Procs :
          PureMissStep(p) =>
              /\ ~MapHas(localCache', call'[p].key)
              /\ metaTable' = metaTable
              /\ ossBucket' = ossBucket
              /\ call'[p].pc = "done" =>
                     /\ call'[p].result = Null /\ call'[p].hresult = Null
                     /\ call'[p].raised = "none" /\ call'[p].hraised = "none"]_vars

\* A get that OSS answered with not-found, all three tiers configured and empty.
C7_Witness ==
    \E p \in Procs :
        LET c == call[p] IN
        /\ DoneGet(c) /\ c.entry = Null /\ c.ossError = "Ignorable"
        /\ hasTableStoreConfig /\ metaTable[buildPrimaryKey(c.key)] = NoRow
        /\ c.result = Null

(***************************************************************************)
(* C8.  Partial-write survivability: when the persistent-tier write of     *)
(* set(K, V) fails, set returns normally, still attempts the metadata      *)
(* write, stores (V, now) in the local cache, and a get(K) made as soon    *)
(* as set has returned returns V.                                          *)
(***************************************************************************)
C8_PartialWrite ==
    \A p \in Procs :
        LET c == call[p] IN
        /\ (DoneSet(c) /\ c.ossError = "Recoverable") =>
               /\ c.raised = "none" /\ c.hraised = "none"
               /\ hasTableStoreConfig => c.metaCalls = 1
               /\ MapGet(localCache, c.key) = Entry(c.value, c.now)
        /\ (DoneGet(c) /\ prev[p].op = "set" /\ prev[p].key = c.key
              /\ prev[p].ossError = "Recoverable" /\ c.now = prev[p].doneAt) =>
               c.result.value = prev[p].value

(***************************************************************************)
(* C9.  Fail-open: whatever requests to the persistent and metadata tiers  *)
(* fail, the orchestrator's get / set / delete and the handler's get /     *)
(* set return without raising, and the handler's get returns null when     *)
(* the orchestrator resolved no value.                                     *)
(***************************************************************************)
C9_FailOpen ==
    \A p \in Procs :
        LET c == call[p] IN
        c.pc = "done" =>
            /\ c.raised = "none" /\ c.hraised = "none"
            /\ (c.op = "get" /\ c.result = Null) => c.hresult = Null

\* A set both of whose remote writes failed.
C9_Witness ==
    \E p \in Procs :
        LET c == call[p] IN
        /\ DoneSet(c) /\ c.ossError = "Recoverable"
        /\ c.metaCalls = 1 /\ c.metaFaults = 1

(***************************************************************************)
(* C10.  deleteMeta writes a tombstone: after the orchestrator's delete    *)
(* with the metadata tier configured and answering, the row of the key     *)
(* has deleted = true and revalidatedAt = the time of the delete.          *)
(***************************************************************************)
C10_DeleteMetaTombstone ==
    \A p \in Procs :
        LET c == call[p]
            row == metaTable[buildPrimaryKey(c.key)]
        IN (DoneDelete(c) /\ hasTableStoreConfig /\ c.metaFaults = 0) =>
               /\ row.deleted
               /\ c.now <= row.revalidatedAt /\ row.revalidatedAt <= c.doneAt

StoredUnder(v) ==
    {SetCacheType(d, ctx) : d \in {x \in HostData : transformValueForStorage(x) = v},
                            ctx \in Ctxs}

(***************************************************************************)
(* C12.  Kind isolation: get(K, kind) returns only a value that was        *)
(* stored under that kind; after set(K, V, 'cache') and no set of K under  *)
(* 'fetch', get(K, 'fetch') does not return V.  Every value of the model   *)
(* is stored under one kind only, the one StoredUnder gives.               *)
(***************************************************************************)
C12_KindIsolation ==
    \A p \in Procs :
        LET c == call[p] IN
        (DoneGet(c) /\ c.result # Null) => c.cacheType \in StoredUnder(c.result.value)

\* No request of the call failed (not-found is an answer).
Healthy(ossError, metaFaults) == ossError \in {"none", "Ignorable"} /\ metaFaults = 0

(***************************************************************************)
(* C13.  Delete destroys the entry: after delete(K) has completed with     *)
(* every configured tier healthy, the next get(K, kind) of the instance,   *)
(* healthy too, returns miss for every kind.                               *)
(***************************************************************************)
C13_DeleteDestroys ==
    \A p \in Procs :
        LET c == call[p] IN
        (/\ DoneGet(c) /\ prev[p].op = "delete" /\ prev[p].key = c.key
         /\ Healthy(prev[p].ossError, prev[p].metaFaults) /\ prev[p].ossError = "none"
         /\ Healthy(c.ossError, c.metaFaults))
        => c.result = Null

\* p's delete took a step.
DeleteStep(p) == call'[p] # call[p] /\ call'[p].op = "delete"

(***************************************************************************)
(* C14.  Independent delete steps: delete attempts the OSS delete, then    *)
(* the metadata tombstone, then the local removal, whatever the outcome    *)
(* of the earlier steps: with TableStore configured it returns only from   *)
(* the await of deleteMeta, deleteMeta is awaited only after the await of  *)
(* ossCache.delete when OSS is configured, and when it returns the local   *)
(* cache does not hold the key.                                            *)
(***************************************************************************)
C14_IndependentDeleteSteps ==
    [][\A p \in Procs :
          DeleteStep(p) =>
              LET c == call'[p] IN
              /\ c.raised = "none"
              /\ (c.pc = "del_meta" /\ hasOSSConfig) =>
                     (call[p].pc = "del_oss" /\ c.ossCalls = 1)
              /\ (c.pc = "done" /\ hasTableStoreConfig) => call[p].pc = "del_meta"
              /\ (c.pc = "done" /\ hasOSSConfig) => c.ossCalls = 1
              /\ c.pc = "done" => ~MapHas(localCache', c.key)]_vars

\* A delete of a held key whose OSS delete failed went on to the metadata step.
C14_Witness ==
    \E p \in Procs :
        LET c == call[p] IN
        /\ DoneDelete(c) /\ c.ossError = "Recoverable" /\ hasTableStoreConfig
        /\ prev[p].op = "set" /\ prev[p].key = c.key
        /\ ~MapHas(localCache, c.key)

\* p's set took a step.
SetStep(p) == call'[p] # call[p] /\ call'[p].op = "set"

(***************************************************************************)
(* C15.  Write ordering of set: one set call writes the bucket, then the   *)
(* metadata table, then the local cache; the bucket changes only on the    *)
(* return of ossCache.set, the table only on the return of setMeta, which  *)
(* is awaited after ossCache.set, and the local cache changes only in the  *)
(* step in which set returns, after both remote writes were attempted.     *)
(***************************************************************************)
C15_SetWriteOrder ==
    [][\A p \in Procs :
          SetStep(p) =>
              LET c == call'[p] IN
              /\ ossBucket' # ossBucket => call[p].pc = "set_oss"
              /\ metaTable' # metaTable => call[p].pc = "set_meta"
              /\ (c.pc = "set_meta" /\ hasOSSConfig) => call[p].pc = "set_oss"
              /\ c.pc = "set_oss" => c.metaCalls = 0
              /\ c.pc # "done" => localCache' = localCache
              /\ c.pc = "done" =>
                     /\ hasOSSConfig => c.ossCalls = 1
                     /\ hasTableStoreConfig => (c.metaCalls = 1 /\ call[p].pc = "set_meta")
                     /\ MapGet(localCache', c.key) = Entry(c.value, c.now)]_vars

\* A set that wrote all three tiers.
C15_Witness ==
    \E p \in Procs :
        LET c == call[p] IN
        /\ DoneSet(c) /\ c.ossCalls = 1 /\ c.metaCalls = 1
        /\ c.ossError = "none" /\ c.metaFaults = 0
        /\ ossBucket[buildOSSKey(c.key, c.cacheType)].content = JSONStringify(c.value)
        /\ metaTable[buildPrimaryKey(c.key)] = WriteMeta(c.value, c.now)
        /\ MapGet(localCache, c.key) = Entry(c.value, c.now)

\* What get returns when no persistent tier is configured.
LocalOnlyResult(c) ==
    IF c.entry # Null /\ (\/ IsFresh(c.entry, c.now)
                          \/ /\ c.metadata # NoRow /\ ~c.metadata.deleted
                             /\ MetaValidates(c.metadata, c.entry))
    THEN c.entry ELSE Null

(***************************************************************************)
(* C16.  Graceful degradation: a tier that is not configured is never      *)
(* requested and its absence raises nothing; with no persistent tier get   *)
(* returns the local entry when it is fresh or validated by metadata and   *)
(* miss otherwise, and set / delete still update the local cache.          *)
(***************************************************************************)
C16_FewerTiers ==
    \A p \in Procs :
        LET c == call[p] IN
        /\ ~hasOSSConfig => (c.ossCalls = 0 /\ c.ossError = "none")
        /\ ~hasTableStoreConfig =>
               (c.metaCalls = 0 /\ c.metaFaults = 0 /\ c.metadata = NoRow)
        /\ (~hasOSSConfig \/ ~hasTableStoreConfig) =>
               (c.raised = "none" /\ c.hraised = "none")
        /\ (DoneGet(c) /\ ~hasOSSConfig) => c.result = LocalOnlyResult(c)
        /\ (DoneSet(c) /\ ~hasOSSConfig) =>
               MapGet(localCache, c.key) = Entry(c.value, c.now)
        /\ (DoneDelete(c) /\ ~hasOSSConfig) => ~MapHas(localCache, c.key)

\* No OSS: a stale entry that metadata does not validate is a miss.
C16_Witness ==
    \E p \in Procs :
        LET c == call[p] IN
        /\ DoneGet(c) /\ ~hasOSSConfig /\ hasTableStoreConfig
        /\ c.entry # Null /\ ~IsFresh(c.entry, c.now)
        /\ c.metaCalls = 1 /\ c.metadata = NoRow /\ c.result = Null

(***************************************************************************)
(* C17.  Delete-by-tag is a no-op: revalidateTag(tag) leaves the local     *)
(* cache, the metadata table and the bucket as they were, whatever they    *)
(* hold, and raises nothing.                                               *)
(***************************************************************************)
C17_RevalidateTagNoOp ==
    [][\A p \in Procs :
          (call'[p] # call[p] /\ call'[p].op = "revalidateTag") =>
              /\ localCache' = localCache
              /\ metaTable' = metaTable
              /\ ossBucket' = ossBucket
              /\ call'[p].pc = "done"
              /\ call'[p].raised = "none" /\ call'[p].hraised = "none"]_vars

\* revalidateTag returned while all three tiers held the key.
C17_Witness ==
    \E p \in Procs :
        LET c == call[p] IN
        /\ c.pc = "done" /\ c.op = "revalidateTag"
        /\ prev[p].op = "set" /\ MapHas(localCache, prev[p].key)
        /\ metaTable[buildPrimaryKey(prev[p].key)] # NoRow
        /\ \E o \in ObjectKeys : ossBucket[o] # NoObject

(***************************************************************************)
(* C18.  ObjectStore failure classification: ossCache.get raises           *)
(* Ignorable exactly when the object is not found and Recoverable for      *)
(* every other failure (network, timeout, auth, quota, a missing bucket,   *)
(* an undecodable payload); ossCache.set raises Recoverable on any         *)
(* failure; ossCache.delete returns normally when the object is absent     *)
(* and raises Recoverable on any other failure.                            *)
(***************************************************************************)
C18_FailureClassification ==
    /\ probe.op = "get" =>
           /\ probe.error = "Ignorable" <=> (probe.fault = "none" /\ ~probe.present)
           /\ probe.fault # "none" => probe.error = "Recoverable"
    /\ probe.op = "set" => (probe.fault # "none" => probe.error = "Recoverable")
    /\ probe.op = "delete" =>
           /\ probe.fault = "none" => probe.error = "none"
           /\ probe.fault # "none" => probe.error = "Recoverable"

\* The layout of the object key of an entry, written out.
Layout(prefix, x) ==
    LET p == IF prefix # << >> THEN prefix ELSE OSS_CACHE_PREFIX
        b == IF x.buildId # << >> THEN x.buildId ELSE NEXT_BUILD_ID
    IN IF x.kind = "fetch" THEN p \o <<Sep, "__fetch", Sep>> \o b \o <<Sep>> \o x.key
       ELSE p \o <<Sep>> \o b \o <<Sep>> \o x.key \o <<Dot, x.kind>>

(***************************************************************************)
(* C19.  Object key layout: buildOSSKey gives {prefix}/{buildId}/{key}     *)
(* .{kind} for the kinds cache and composable and {prefix}/__fetch/        *)
(* {buildId}/{key} for fetch (as paths: up to repeated separators), and    *)
(* distinct (buildId, kind, key) get distinct object keys.                 *)
(***************************************************************************)
C19_KeyLayout ==
    probe.op = "buildOSSKey" =>
        /\ probe.keyA = posixNormalize(Layout(probe.prefix, probe.a))
        /\ probe.keyB = posixNormalize(Layout(probe.prefix, probe.b))
        /\ probe.a # probe.b => probe.keyA # probe.keyB

\* p's call is under way: it waits in an await.
InFlight(p) == call[p].pc \notin {"idle", "done"}

(***************************************************************************)
(* C20.  No tier can stall the orchestrator: every get / set / delete      *)
(* call eventually returns, also when a remote tier never answers.         *)
(***************************************************************************)
C20_NoStall == \A p \in Procs : InFlight(p) ~> (call[p].pc = "done")

(***************************************************************************)
(* C21..C30                                                                *)
(***************************************************************************)

\* The record getMeta returned leaves the stale entry unvalidated: no record
\* (absent, or the lookup failed), or a live record revalidated after the
\* entry was written.
NotValidated(metadata, entry) ==
    \/ metadata = NoRow
    \/ ~metadata.deleted /\ metadata.revalidatedAt > entry.lastModified

\* C21: in a get, the metadata store is read only for a local entry that is
\* stale, the object store is read only when the local entry is absent or is
\* stale and not validated by the record read, and a get that found a fresh
\* entry, a tombstone or a validating record reads no object.
C21_ConsultationOrder ==
    \A p \in Procs :
        LET c == call[p]
            stale == c.entry # Null /\ ~IsFresh(c.entry, c.now)
        IN c.op = "get" =>
            /\ c.pc \in {"get_meta", "get_oss", "get_setmeta", "done"}
            /\ c.pc = "get_meta" => stale /\ c.ossCalls = 0
            /\ c.ossCalls = 1 =>
                   \/ c.entry = Null /\ c.metadata = NoRow
                   \/ stale /\ NotValidated(c.metadata, c.entry)
            /\ c.ossCalls <= 1
            /\ (c.entry # Null /\ IsFresh(c.entry, c.now)) =>
                   c.pc = "done" /\ c.ossCalls = 0 /\ c.metaCalls = 0
            /\ (c.pc = "done" /\ stale /\ ~NotValidated(c.metadata, c.entry)) =>
                   c.ossCalls = 0

\* A get of a stale entry read a record revalidated after the entry was
\* written, and then read the object store.
C21_Witness ==
    \E p \in Procs :
        LET c == call[p] IN
        /\ DoneGet(c) /\ c.entry # Null /\ ~IsFresh(c.entry, c.now)
        /\ c.metadata # NoRow /\ c.metadata.revalidatedAt > c.entry.lastModified
        /\ c.ossCalls = 1

\* What an answered ossCache.get of the call's key and kind returns now.
Persisted(c) == ossCacheGet(ossBucket, c.key, c.cacheType, "none").result

\* C22: a get that found a stale local entry the metadata did not validate
\* (no record, a failed lookup, or a record revalidated after the entry was
\* written) reads the configured object store, and when that answers with a
\* value the get returns the persisted value and the local cache holds it in
\* place of the stale entry.
C22_StalenessRefreshes ==
    \A p \in Procs :
        LET c == call[p] IN
        (/\ DoneGet(c) /\ hasOSSConfig
         /\ c.entry # Null /\ ~IsFresh(c.entry, c.now)
         /\ NotValidated(c.metadata, c.entry))
        => /\ c.ossCalls = 1
           /\ (c.ossError = "none" /\ Persisted(c) # Null) =>
                  /\ c.result = Persisted(c)
                  /\ MapGet(localCache, c.key) = Persisted(c)

\* A stale entry whose lookup failed was replaced by a different persisted
\* entry, which the get returned.
C22_Witness ==
    \E p \in Procs :
        LET c == call[p] IN
        /\ DoneGet(c) /\ c.entry # Null /\ ~IsFresh(c.entry, c.now)
        /\ c.metaFaults >= 1 /\ c.metadata = NoRow
        /\ c.ossError = "none" /\ c.result = Persisted(c)
        /\ c.result.value # NoValue /\ c.result # c.entry
        /\ MapGet(localCache, c.key) = c.result

\* The step in which caller p's ossCache.get answered with a value.
OssHitStep(p) ==
    /\ call[p].op = "get" /\ call[p].pc = "get_oss"
    /\ call'[p].pc # "get_oss"
    /\ call'[p].ossError = "none" /\ call'[p].result # Null

\* C23: the entry a get writes through to the local cache on an object-store
\* hit is fresh at the moment it is inserted (its age is below the TTL),
\* whatever the age of the object.
C23_WriteThroughFresh ==
    [][\A p \in Procs :
          OssHitStep(p) =>
              /\ MapHas(localCache', call[p].key)
              /\ IsFresh(MapGet(localCache', call[p].key), now)]_vars

\* C24: every set(K, V) returns normally with the local cache holding
\* (V, now), now being the time the call started, for every outcome of the
\* remote writes and every value V, one that cannot be serialized included.
C24_UnconditionalLocalUpdate ==
    \A p \in Procs :
        LET c == call[p] IN
        DoneSet(c) =>
            /\ c.raised = "none"
            /\ MapGet(localCache, c.key) = Entry(c.value, c.now)

\* C25: getMeta, setMeta and deleteMeta never raise; when the backend fails
\* or no configuration exists, getMeta returns the absent record and setMeta
\* and deleteMeta leave the stored record unchanged.
C25_MetaBestEffort ==
    probe.op \in {"getMeta", "setMeta", "deleteMeta"} =>
        /\ probe.raised = "none"
        /\ (probe.fault = "error" \/ ~hasTableStoreConfig) =>
               /\ probe.result = NoRow
               /\ probe.after = probe.before

\* A setMeta whose request failed left a row that differs from the one it
\* was given.
C25_Witness ==
    /\ probe.op = "setMeta" /\ probe.fault = "error" /\ hasTableStoreConfig
    /\ probe.raised = "none" /\ probe.after = probe.before
    /\ \E v \in Values : probe.before[buildPrimaryKey(probe.key)] # WriteMeta(v, now)
    /\ probe.before[buildPrimaryKey(probe.key)] # NoRow

\* The keys of m other than k, in the Map's order.
OthersInOrder(m, k) ==
    LET Other(x) == x # k IN SelectSeq(MapKeys(m), Other)

\* C26: LRUCache.set(K, v) on a key the cache holds evicts nothing, also
\* when the cache is full: the key set is unchanged, K is in the most-recent
\* position with the new value, and the other entries keep their values and
\* their order.
C26_ReplaceNeverEvicts ==
    [][(LRUStep /\ lastOp'.op = "set" /\ MapHas(localCache, lastOp'.key)) =>
          LET k == lastOp'.key IN
          /\ KeySet(localCache') = KeySet(localCache)
          /\ LRUSize(localCache') = LRUSize(localCache)
          /\ MostRecent(localCache') = k
          /\ MapGet(localCache', k) = Entry(probe'.value, now)
          /\ OthersInOrder(localCache', k) = OthersInOrder(localCache, k)
          /\ \A x \in LRUKeys \ {k} : MapGet(localCache', x) = MapGet(localCache, x)]_vars

\* A full cache of capacity 2 whose older key A was just set again: both
\* keys are still held and A is the most recent.
C26_Witness ==
    /\ maxSize = 2 /\ lastOp.op = "set" /\ lastOp.key = "A"
    /\ probe.op = "set" /\ probe.had /\ probe.size = 2
    /\ MapKeys(localCache) = <<"B", "A">>
    /\ lastUse["B"] < lastUse["A"]

\* The get c fetched its result from the object store.
FetchedFromOss(c) == c.ossCalls = 1 /\ c.ossError = "none" /\ c.result # Null

\* C27: when a get of K missed because the object store reported not-found,
\* the caller's next call, a get of K under the same kind with no set in
\* between, returns a value only if it fetched it from the object store: the
\* stale local entry that was present during the not-found is not served.
C27_NotFoundStands ==
    \A p \in Procs :
        LET c == call[p] IN
        (/\ DoneGet(c)
         /\ prev[p].op = "get" /\ prev[p].key = c.key
         /\ prev[p].cacheType = c.cacheType
         /\ prev[p].ossError = "Ignorable"
         /\ ~FetchedFromOss(c))
        => c.result = Null

\* The step in which the reader starts a get of key k.
ReaderStartsGet(k) ==
    /\ call[Reader].pc \in {"idle", "done"}
    /\ call'[Reader] # call[Reader]
    /\ call'[Reader].op = "get" /\ call'[Reader].key = k

\* C28: once set(K, V) has returned, a get of K that starts afterwards, with
\* the entry of the set younger than the TTL and no later set or delete,
\* returns V from the local cache, also when a get that was waiting for the
\* object store while the set ran writes through after the set.
C28_ReadYourWrites ==
    [][LET w == call[Writer] IN
       (/\ DoneSet(w) /\ w.raised = "none"
        /\ ReaderStartsGet(w.key)
        /\ now - w.now < LOCAL_CACHE_TTL_MS)
       => /\ call'[Reader].pc = "done"
          /\ call'[Reader].result.value = w.value]_vars

\* C29: once delete(K) has returned, a get of K that started before the
\* delete returned does not put K back into the local cache and does not
\* replace a tombstone in the metadata table.
C29_NoResurrection ==
    [][LET w == call[Writer]
           r == call[Reader]
           pk == buildPrimaryKey(w.key)
       IN (/\ DoneDelete(w) /\ call'[Writer] = w
           /\ r.op = "get" /\ r.key = w.key /\ r.now < w.doneAt)
          => /\ MapHas(localCache', w.key) => MapHas(localCache, w.key)
             /\ metaTable[pk].deleted => metaTable'[pk].deleted]_vars

\* C30: after another instance's set(K, V2) wrote the object store, a get of
\* K on this instance that starts later, finds a stale local entry written
\* before that set, and reaches every tier it asks returns V2 while the
\* object store still holds it, whether or not the other instance's
\* metadata write succeeded.
C30_CrossInstance ==
    \A p \in Procs :
        LET c == call[p] IN
        (/\ DoneGet(c)
         /\ probe.op = "peerSet" /\ probe.key = c.key /\ probe.cacheType = c.cacheType
         /\ c.now > probe.at
         /\ c.entry # Null /\ ~IsFresh(c.entry, c.now)
         /\ c.entry.lastModified < probe.at
         /\ c.ossError = "none" /\ c.metaFaults = 0
         /\ Persisted(c) = Entry(probe.value, probe.at))
        => c.result.value = probe.value

(***************************************************************************)
(* C31..C35                                                                *)
(***************************************************************************)

\* C31: the revalidatedAt stored for a key in the metadata table never
\* decreases, whatever the orchestrator's set, get write-through and delete
\* do and in whatever order.
C31_MetaMonotonic ==
    [][\A pk \in PrimaryKeys :
          metaTable'[pk].revalidatedAt >= metaTable[pk].revalidatedAt]_vars

\* C32: when set(K, V) returns, the local entry it wrote is fresh (its age
\* is below the TTL at that moment), however long the remote writes of the
\* set took.
C32_FreshWhenSetReturns ==
    \A p \in Procs :
        LET c == call[p] IN
        (DoneSet(c) /\ c.raised = "none") =>
            /\ MapHas(localCache, c.key)
            /\ IsFresh(MapGet(localCache, c.key), c.doneAt)

\* A step of a get, set or delete call of the three-tier orchestrator.
OrchestratorStep ==
    \E p \in Procs :
        /\ call'[p] # call[p]
        /\ call'[p].op \in {"get", "set", "delete"}

\* C33: with the metadata tier not configured, every step a call of the
\* three-tier orchestrator takes is the step the two-tier multiTierCache
\* takes from the same state on the same call and the same answer of the
\* object store: the same result or error, local cache and bucket.
C33_TwoTierEquivalence ==
    [][(~hasTableStoreConfig /\ OrchestratorStep) => NextTwoTier]_vars

\* C34: an LRUCache of capacity 0 holds nothing: size() is 0 after every
\* call.
C34_ZeroCapacity == maxSize = 0 => LRUSize(localCache) = 0

\* C35: for a host entry of any kind, the value handler.get returns for
\* what handler.set stored has the entry's kind:
\* transformCacheValue(transformValueForStorage(data)).kind = data.kind.
C35_KindRoundTrip ==
    probe.op = "roundTrip" =>
        /\ probe.back = transformCacheValue(transformValueForStorage(probe.data))
        /\ probe.back.kind = probe.data.kind

====
